---- MODULE Spec2Model ----
(***************************************************************************)
(* A model of the frame synchronizer (Device::new_frame / end_frame and    *)
(* the draw loop of src/main.rs), of the paged handle table (ResourcePool) *)
(* and of device setup (queue family selection, the queues and the         *)
(* bindless descriptor layout of Device::new) of lr-rs.                    *)
(*                                                                         *)
(* Machine integers keep their width, scaled down so that the state space  *)
(* stays finite: the u64 of Semaphore::counter is CounterBits wide, the    *)
(* u32 of ResourcePool::latest_index is IndexBits wide, and the pool's     *)
(* MAX_RESOURCE_COUNT = 1 << 19 and PAGE_BITS = 9 are 1 << ResourceBits    *)
(* and PageBits.  Arithmetic overflow is what the build makes of it: a     *)
(* panic with overflow checks (debug), a wrap without (release).           *)
(***************************************************************************)
EXTENDS Integers, Sequences, FiniteSets, TLC

\* ------------------------------------------------------------------ bounds
MaxFrameCount == 3      \* frame_count ranges over 1..MaxFrameCount
MaxImageCount == 3      \* swapchain images the driver may create
MaxFrames     == 6      \* draws explored per run
CounterBits   == 5      \* scaled width of u64 / i64
IndexBits     == 3      \* scaled width of u32
ResourceBits  == 2      \* scaled log2 of MAX_RESOURCE_COUNT (19)
PageBits      == 1      \* scaled PAGE_BITS (9)
MaxFamilies   == 3      \* queue families a driver reports, at most

VARIABLES
    overflow_checks,    \* build profile: TRUE = overflow panics, FALSE = wraps
    frame_count,        \* Device::frame_count
    frame_sema,         \* Device::frame_sema, [counter |-> u64]
    queues,             \* Device::queues, [CommandQueue; 3]
    timeline,           \* GPU-side value of frame_sema's timeline semaphore
    in_flight,          \* signal values of submitted, not yet completed batches
    image_count,        \* number of swapchain images
    pc,                 \* position of the CPU thread in Application::draw
    wait_val,           \* new_frame: value handed to wait_for_semaphore
    blocked,            \* new_frame: the wait found the timeline below wait_val
    sema_index,         \* draw: result of new_frame
    image_index,        \* draw: result of acquire_next_image
    history,            \* frames submitted so far, [slot, signal] each
    n_new_frame,        \* number of new_frame calls so far
    n_end_frame,        \* number of end_frame calls so far
    driver,             \* draw: what the driver reported to the last swapchain call
    returned,           \* draw: what that call handed back to draw
    alloc_last,         \* per command allocator, the signal value of the last
                        \* batch submitted from it (0: none yet)
    pool,               \* a ResourcePool: [pages, free_indices, latest_index]
    pool_pc,            \* "ok", or "panic" once a call on the pool panicked
    last,               \* the last call on the pool and what it returned
    live,               \* handles created and not freed
    ever_exhausted,     \* some create with an empty free list returned None
    families,           \* queue family table the driver reports: flags per family
    dev_pc,             \* position of the CPU thread in Device::new
    queue_type_indices, \* PhysicalDevice::queue_type_indices, [usize; 3]
    queue_create_infos, \* create_device: the DeviceQueueCreateInfo list
    descriptor_bindings,       \* Device::new: the bindless layout's bindings
    descriptor_pool_sizes,     \* Device::new: the descriptor pool's sizes
    descriptor_binding_flags   \* Device::new: per-binding flags

device_vars == <<frame_count, frame_sema, queues, timeline, in_flight,
                 image_count, pc, wait_val, blocked, sema_index, image_index,
                 history, n_new_frame, n_end_frame, driver, returned,
                 alloc_last>>

pool_vars == <<pool, pool_pc, last, live, ever_exhausted>>

setup_vars == <<families, dev_pc, queue_type_indices, queue_create_infos,
                descriptor_bindings, descriptor_pool_sizes,
                descriptor_binding_flags>>

vars == <<overflow_checks, device_vars, pool_vars, setup_vars>>

\* ------------------------------------------------------------ machine words
U64 == 0 .. (2^CounterBits - 1)
I64_MIN == -(2^(CounterBits - 1))

\* `x as i64` of a u64 x: two's complement reinterpretation.
AsI64(x) == IF x >= 2^(CounterBits - 1) THEN x - 2^CounterBits ELSE x

\* command.rs: enum CommandType { Graphics = 0, Transfer = 1, Compute = 2 }
CommandType == {"Graphics", "Transfer", "Compute"}

Max(a, b) == IF a >= b THEN a ELSE b

\* ------------------------------------------------------------- Semaphore
\* A counter that moves by two per unit of work.
advance_by_two(sema) == [sema EXCEPT !.counter = @ + 2]

\* Semaphore::advance, `self.counter += 1`, where the addition does not
\* overflow.
advance(sema) == [sema EXCEPT !.counter = @ + 1]

\* `self.counter += 1` overflows the u64.
advance_overflows(sema) == sema.counter + 1 > 2^CounterBits - 1

\* ------------------------------------------------------------- new_frame
\* `sema_counter - (self.frame_count - 1) as i64` as a mathematical integer,
\* with sema_counter = `self.frame_sema.counter as i64`.
WaitDiff(counter, n) == AsI64(counter) - (n - 1)

\* The i64 subtraction overflows when its result is below i64::MIN.
WaitOverflows(counter, n) == WaitDiff(counter, n) < I64_MIN

\* A wait target one frame too late: frame_count instead of frame_count - 1.
WaitValueNoHeadroom(counter, n) == Max(0, AsI64(counter) - n)

\* A wait target computed in u64, where counter - (frame_count - 1) wraps
\* below zero.
WaitValueUnsigned(counter, n) == (counter - (n - 1)) % 2^CounterBits

\* A wait target one past the counter: a value no batch has been submitted
\* to signal.
WaitValueAhead(counter, n) == counter + 1

\* `std::cmp::max(0, sema_counter - (self.frame_count - 1) as i64) as u64`,
\* the subtraction wrapped where it overflows in a build without overflow
\* checks.
WaitValue(counter, n) ==
    LET d == WaitDiff(counter, n)
        w == IF d < I64_MIN THEN d + 2^CounterBits ELSE d
    IN  Max(0, w)

\* A slot index taken modulo frame_count + 1.
SlotIndexOffByOne(counter, n) == counter % (n + 1)

\* `(self.frame_sema.counter % self.frame_count as u64) as usize`
SlotIndex(counter, n) == counter % n

\* ---------------------------------------------------------- ResourcePool
U32_MAX == 2^IndexBits - 1

MAX_RESOURCE_COUNT == 2^ResourceBits
PAGE_BITS == PageBits
PAGE_SIZE == 2^PAGE_BITS
PAGE_MASK == PAGE_SIZE - 1
PAGE_COUNT == MAX_RESOURCE_COUNT \div PAGE_SIZE

\* `index >> bits` on a u32.
ShiftRight(index, bits) == index \div 2^bits

\* `index & PAGE_MASK`, with PAGE_MASK = PAGE_SIZE - 1 the low PAGE_BITS bits.
AndPageMask(index) == index % (PAGE_MASK + 1)

\* Option<(&ResourceT, ResourceID)>, and the panic of an overflowing `+= 1`
\* in a build with overflow checks.
None == [kind |-> "None", id |-> 0]
Some(index) == [kind |-> "Some", id |-> index]
Panicked == [kind |-> "panic", id |-> 0]

\* A page that is not materialized, and one of PAGE_SIZE uninitialized slots.
NoPage == [present |-> FALSE, slots |-> [o \in 0 .. PAGE_SIZE - 1 |-> FALSE]]
UninitPage == [present |-> TRUE, slots |-> [o \in 0 .. PAGE_SIZE - 1 |-> FALSE]]

\* ResourcePool::new
new == [latest_index |-> 0,
        free_indices |-> << >>,
        pages |-> [p \in 0 .. PAGE_COUNT - 1 |-> NoPage]]

\* create, free list empty: `self.latest_index += 1; index = self.latest_index`
\* with the sum wrapped to the width of u32.
FreshIndex(p) ==
    LET latest == (p.latest_index + 1) % (U32_MAX + 1)
    IN  [index |-> latest, pool |-> [p EXCEPT !.latest_index = latest]]

\* The first entry of the free list handed out, the last one popped.
ReuseIndexFirst(p) ==
    [index |-> p.free_indices[1],
     pool |-> [p EXCEPT !.free_indices = SubSeq(@, 1, Len(@) - 1)]]

\* The last entry handed out and popped, the high-water mark raised too.
ReuseIndexBump(p) ==
    [index |-> p.free_indices[Len(p.free_indices)],
     pool |-> [p EXCEPT !.free_indices = SubSeq(@, 1, Len(@) - 1),
                        !.latest_index = (@ + 1) % (U32_MAX + 1)]]

\* create, free list not empty: `*self.free_indices.last().unwrap()`, and
\* `self.free_indices.pop()`.
ReuseIndex(p) ==
    [index |-> p.free_indices[Len(p.free_indices)],
     pool |-> [p EXCEPT !.free_indices = SubSeq(@, 1, Len(@) - 1)]]

\* A fresh page put in place at every call, the old records gone.
PlaceFreshPage(p, index) ==
    LET page_id == ShiftRight(index, PAGE_BITS)
        page_offset == AndPageMask(index)
    IN  IF page_id >= PAGE_COUNT
        THEN [pool |-> p, ret |-> None]
        ELSE [pool |-> [p EXCEPT !.pages[page_id] =
                           [UninitPage EXCEPT !.slots[page_offset] = TRUE]],
              ret |-> Some(index)]

\* create from `let page_id` on: the page is materialized if it is not yet,
\* and the record is written to its slot.
Place(p, index) ==
    LET page_id == ShiftRight(index, PAGE_BITS)
        page_offset == AndPageMask(index)
    IN  IF page_id >= PAGE_COUNT
        THEN [pool |-> p, ret |-> None]
        ELSE LET page == IF p.pages[page_id].present
                         THEN p.pages[page_id] ELSE UninitPage
                 written == [page EXCEPT !.slots[page_offset] = TRUE]
             IN  [pool |-> [p EXCEPT !.pages[page_id] = written],
                  ret |-> Some(index)]

\* ResourcePool::create
create(p) ==
    IF p.free_indices = << >>
    THEN IF p.latest_index + 1 > U32_MAX /\ overflow_checks
         THEN [pool |-> p, ret |-> Panicked]
         ELSE LET f == FreshIndex(p)
              IN  IF f.index >= MAX_RESOURCE_COUNT
                  THEN [pool |-> f.pool, ret |-> None]
                  ELSE Place(f.pool, f.index)
    ELSE LET r == ReuseIndex(p)
         IN  Place(r.pool, r.index)

\* free(handle) of the handle table's contract: the record of the slot is
\* dropped and the index is pushed on the free list, the stack that create
\* pops.
free(p, h) ==
    LET page_id == ShiftRight(h, PAGE_BITS)
        page_offset == AndPageMask(h)
    IN  [p EXCEPT !.free_indices = Append(@, h),
                  !.pages[page_id].slots[page_offset] = FALSE]

InitPool ==
    /\ pool = new
    /\ pool_pc = "ok"
    /\ last = [op |-> "new", ret |-> None]
    /\ live = {}
    /\ ever_exhausted = FALSE

\* A call of create on the pool.
Create ==
    /\ pool_pc = "ok"
    /\ LET c == create(pool)
       IN  /\ pool' = c.pool
           /\ last' = [op |-> "create", ret |-> c.ret]
           /\ pool_pc' = IF c.ret.kind = "panic" THEN "panic" ELSE "ok"
           /\ live' = IF c.ret.kind = "Some" THEN live \cup {c.ret.id} ELSE live
           /\ ever_exhausted' =
                (ever_exhausted
                   \/ (pool.free_indices = << >> /\ c.ret.kind = "None"))
    /\ UNCHANGED <<overflow_checks, device_vars, setup_vars>>

\* A call of free with a handle that create returned and that is not freed.
Free ==
    /\ pool_pc = "ok"
    /\ \E h \in live :
         /\ pool' = free(pool, h)
         /\ live' = live \ {h}
         /\ last' = [op |-> "free", ret |-> Some(h)]
    /\ UNCHANGED <<overflow_checks, device_vars, setup_vars, pool_pc, ever_exhausted>>

PoolNext == Create \/ Free

\* ------------------------------------------------------------ device setup
\* The capability bits of vk::QueueFlags that the selection reads.
QueueFlags == {"GRAPHICS", "COMPUTE", "TRANSFER"}

\* Every table of 1 .. MaxFamilies queue families; family i of the driver is
\* entry i + 1 of the table.
FamilyTables == UNION {[1 .. n -> SUBSET QueueFlags] : n \in 1 .. MaxFamilies}

\* `command_type as usize`.
AsUsize(k) ==
    CASE k = "Graphics" -> 0
      [] k = "Transfer" -> 1
      [] k = "Compute"  -> 2

\* The loop of get_first_queue_index from entry i on.
RECURSIVE first_queue_loop(_, _, _)
first_queue_loop(props, desired_flags, i) ==
    IF i > Len(props) THEN None
    ELSE IF (props[i] \cap desired_flags) = desired_flags THEN Some(i - 1)
    ELSE first_queue_loop(props, desired_flags, i + 1)

get_first_queue_index(props, desired_flags) ==
    first_queue_loop(props, desired_flags, 1)

\* The loop of get_separate_queue_index from entry i on, `index` being the
\* local of that name.
RECURSIVE separate_queue_loop(_, _, _, _, _)
separate_queue_loop(props, desired_flags, undesired_flags, i, index) ==
    IF i > Len(props) THEN index
    ELSE IF /\ (props[i] \cap desired_flags) = desired_flags
            /\ (props[i] \cap {"GRAPHICS"}) = {}
         THEN IF (props[i] \cap undesired_flags) = {}
              THEN Some(i - 1)
              ELSE separate_queue_loop(props, desired_flags, undesired_flags,
                                       i + 1, Some(i - 1))
         ELSE separate_queue_loop(props, desired_flags, undesired_flags,
                                  i + 1, index)

\* A selector that takes the first non-graphics family with the desired
\* flags, dedicated or not.
get_separate_first_match(props, desired_flags, undesired_flags) ==
    first_queue_loop([i \in 1 .. Len(props) |->
                        IF "GRAPHICS" \in props[i] THEN {} ELSE props[i]],
                     desired_flags, 1)

get_separate_queue_index(props, desired_flags, undesired_flags) ==
    separate_queue_loop(props, desired_flags, undesired_flags, 1, None)

\* let mut queue_type_indices: [usize; 3] = [0; 3]
NoQueueTypeIndices == [i \in 0 .. 2 |-> 0]

\* The selection of PhysicalDevice::new: the three indices, or a panic of
\* one of the `expect`s.
SelectQueues(props) ==
    LET g == get_first_queue_index(props, {"GRAPHICS"})
        c == get_separate_queue_index(props, {"COMPUTE"}, {"TRANSFER"})
        t == get_separate_queue_index(props, {"TRANSFER"}, {"COMPUTE"})
    IN  IF None \in {g, c, t}
        THEN [ok |-> FALSE, queue_type_indices |-> NoQueueTypeIndices]
        ELSE [ok |-> TRUE,
              queue_type_indices |->
                  [i \in 0 .. 2 |->
                      CASE i = AsUsize("Graphics") -> g.id
                        [] i = AsUsize("Compute")  -> c.id
                        [] i = AsUsize("Transfer") -> t.id]]

\* PhysicalDevice::create_device: one DeviceQueueCreateInfo per entry of
\* queue_type_indices, in array order.
create_device(indices) ==
    [i \in 1 .. 3 |-> [queue_family_index |-> indices[i - 1]]]

\* vkGetDeviceQueue: the queue `queue_index` of family `family`.
get_device_queue(family, queue_index) ==
    [family |-> family, queue_index |-> queue_index]

\* vk::Queue::null()
NullQueue == [family |-> -1, queue_index |-> -1]

\* CommandQueue::default()
DefaultQueue ==
    [family_index |-> 0, semaphore |-> [counter |-> 0], handle |-> NullQueue]

\* let native_queues = [..] of Device::new, indexed from 0.
native_queues(indices) ==
    [i \in 0 .. 2 |->
        CASE i = 0 -> get_device_queue(indices[AsUsize("Graphics")], 0)
          [] i = 1 -> get_device_queue(indices[AsUsize("Compute")], 0)
          [] i = 2 -> get_device_queue(indices[AsUsize("Transfer")], 0)]

\* (0..3).for_each(|i| result.queues[i] = CommandQueue { .. })
SetupQueues(indices) ==
    [i \in 0 .. 2 |->
        [family_index |-> indices[i],
         semaphore    |-> [counter |-> 0],
         handle       |-> native_queues(indices)[i]]]

\* Device::queue_at
queue_at(k) == queues[AsUsize(k)]

fixed_descriptor_count == 1024

descriptor_set_layout_infos ==
    << [descriptor |-> "Samplers", ty |-> "SAMPLER",
        count |-> fixed_descriptor_count],
       [descriptor |-> "Images", ty |-> "SAMPLED_IMAGE",
        count |-> fixed_descriptor_count],
       [descriptor |-> "StorageImages", ty |-> "STORAGE_IMAGE",
        count |-> fixed_descriptor_count],
       [descriptor |-> "StorageBuffer", ty |-> "STORAGE_BUFFER",
        count |-> fixed_descriptor_count],
       [descriptor |-> "BufferDeviceaddress", ty |-> "STORAGE_BUFFER",
        count |-> 1] >>

\* vk::DescriptorPoolSize::default().ty(..).descriptor_count(..)
PoolSizes ==
    [b \in 1 .. Len(descriptor_set_layout_infos) |->
        [ty |-> descriptor_set_layout_infos[b].ty,
         descriptor_count |-> descriptor_set_layout_infos[b].count]]

\* vk::DescriptorSetLayoutBinding::default().descriptor_type(..).binding(..):
\* descriptor_count and stage_flags keep their defaults.
LayoutBindings ==
    [b \in 1 .. Len(descriptor_set_layout_infos) |->
        [binding |-> b - 1,
         descriptor_type |-> descriptor_set_layout_infos[b].ty,
         descriptor_count |-> 0,
         stage_flags |-> {}]]

BindingFlags ==
    [b \in 1 .. Len(descriptor_set_layout_infos) |->
        {"UPDATE_AFTER_BIND", "PARTIALLY_BOUND"}]

\* The table of the spec's scenario: a combined family 0, a compute-only
\* family 1, a transfer-only family 2.
ScenarioFamilies ==
    << {"GRAPHICS", "COMPUTE", "TRANSFER"}, {"COMPUTE"}, {"TRANSFER"} >>

\* Device::new has returned Ok for the driver's table `props`.
Constructed(props) ==
    /\ families = props
    /\ dev_pc = "done"
    /\ queue_type_indices = SelectQueues(props).queue_type_indices
    /\ queue_create_infos = create_device(queue_type_indices)
    /\ queues = SetupQueues(queue_type_indices)
    /\ descriptor_bindings = LayoutBindings
    /\ descriptor_pool_sizes = PoolSizes
    /\ descriptor_binding_flags = BindingFlags

\* PhysicalDevice::new, its queue selection.
PhysicalDeviceNew ==
    /\ dev_pc = "PhysicalDevice::new"
    /\ LET r == SelectQueues(families)
       IN  /\ queue_type_indices' = r.queue_type_indices
           /\ dev_pc' = IF r.ok THEN "create_device" ELSE "panic"
    /\ UNCHANGED <<overflow_checks, device_vars, pool_vars, families,
                   queue_create_infos, descriptor_bindings,
                   descriptor_pool_sizes, descriptor_binding_flags>>

\* create_device and the vkCreateDevice in it.  A family index given in two
\* create infos is invalid usage: the driver may accept it or report an
\* error, on which the `expect` panics.
CreateDevice ==
    /\ dev_pc = "create_device"
    /\ queue_create_infos' = create_device(queue_type_indices)
    /\ \/ dev_pc' = "queues"
       \/ /\ \E i, j \in 1 .. 3 :
                i # j /\ queue_create_infos'[i] = queue_create_infos'[j]
          /\ dev_pc' = "panic: Failed to create device"
    /\ UNCHANGED <<overflow_checks, device_vars, pool_vars, families,
                   queue_type_indices, descriptor_bindings,
                   descriptor_pool_sizes, descriptor_binding_flags>>

\* Device::new, "Preparation": the frame semaphore and the three queues.
DeviceNewQueues ==
    /\ dev_pc = "queues"
    /\ frame_sema' = [counter |-> 0]
    /\ queues' = SetupQueues(queue_type_indices)
    /\ dev_pc' = "descriptors"
    /\ UNCHANGED <<overflow_checks, pool_vars, families, queue_type_indices,
                   queue_create_infos, descriptor_bindings,
                   descriptor_pool_sizes, descriptor_binding_flags,
                   frame_count, timeline, in_flight, image_count, pc,
                   wait_val, blocked, sema_index, image_index, history,
                   n_new_frame, n_end_frame, driver, returned, alloc_last>>

\* Device::new, the bindless descriptor set layout and pool.
DeviceNewDescriptors ==
    /\ dev_pc = "descriptors"
    /\ descriptor_pool_sizes' = PoolSizes
    /\ descriptor_bindings' = LayoutBindings
    /\ descriptor_binding_flags' = BindingFlags
    /\ dev_pc' = "done"
    /\ UNCHANGED <<overflow_checks, device_vars, pool_vars, families,
                   queue_type_indices, queue_create_infos>>

DeviceNext ==
    \/ PhysicalDeviceNew
    \/ CreateDevice
    \/ DeviceNewQueues
    \/ DeviceNewDescriptors

\* ---------------------------------------------------------------- swapchain
\* What vkAcquireNextImageKHR and vkQueuePresentKHR report: ash turns SUCCESS
\* into Ok(.., false), SUBOPTIMAL_KHR into Ok(.., true), the rest into Err.
DriverResults == {"SUCCESS", "SUBOPTIMAL_KHR", "ERROR_OUT_OF_DATE_KHR"}

IsOk(result) == result \in {"SUCCESS", "SUBOPTIMAL_KHR"}

\* No swapchain call made, nothing handed back, in this draw so far.
NoCall == [call |-> "none", result |-> "SUCCESS"]
NoReturn == [kind |-> "none"]

\* Device::acquire_next_image, given what the loader reports: the `expect`
\* panics on Err; of Ok((image_id, _suboptimal)) only image_id is returned.
acquire_next_image(result, image_id) ==
    IF IsOk(result)
    THEN [kind |-> "Ok", image_id |-> image_id]
    ELSE [kind |-> "panic"]

\* Device::present: the Result<bool, vk::Result> of queue_present, as it is.
present(result) ==
    IF IsOk(result)
    THEN [kind |-> "Ok", suboptimal |-> (result = "SUBOPTIMAL_KHR")]
    ELSE [kind |-> "Err", result |-> result]

\* ------------------------------------------------------------------- Init
\* Application::draw has not run yet: its locals and the call counts.
InitDraw ==
    /\ overflow_checks \in BOOLEAN
    /\ frame_count \in 1 .. MaxFrameCount
    /\ image_count \in 1 .. MaxImageCount
    /\ pc = "idle"
    /\ wait_val = 0
    /\ blocked = FALSE
    /\ sema_index = 0
    /\ image_index = 0
    /\ history = << >>
    /\ n_new_frame = 0
    /\ n_end_frame = 0
    /\ driver = NoCall
    /\ returned = NoReturn
    /\ alloc_last = [a \in 0 .. frame_count - 1 |-> 0]

\* Device::new(frame_count) has returned on the scenario's hardware.
InitDevice ==
    /\ InitDraw
    /\ Constructed(ScenarioFamilies)

\* Device::new(MaxFrameCount) is about to run, on any hardware.
DeviceInit ==
    /\ InitDraw
    /\ frame_count = MaxFrameCount
    /\ image_count = MaxImageCount
    /\ families \in FamilyTables
    /\ dev_pc = "PhysicalDevice::new"
    /\ queue_type_indices = NoQueueTypeIndices
    /\ queue_create_infos = << >>
    /\ queues = [i \in 0 .. 2 |-> DefaultQueue]
    /\ descriptor_bindings = << >>
    /\ descriptor_pool_sizes = << >>
    /\ descriptor_binding_flags = << >>
    /\ frame_sema = [counter |-> 0]
    /\ timeline = 0
    /\ in_flight = << >>
    /\ InitPool

Init ==
    /\ InitDevice
    /\ frame_sema = [counter |-> 0]
    /\ timeline = 0
    /\ in_flight = << >>
    /\ InitPool

\* A fresh pool, beside a device that stays as Device::new(MaxFrameCount)
\* left it.
PoolInit ==
    /\ InitDevice
    /\ frame_count = MaxFrameCount
    /\ image_count = MaxImageCount
    /\ frame_sema = [counter |-> 0]
    /\ timeline = 0
    /\ in_flight = << >>
    /\ InitPool

\* -------------------------------------------------------- Application::draw
\* new_frame up to the call of wait_for_semaphore.
NewFrameCall ==
    /\ pc = "idle"
    /\ n_new_frame < MaxFrames
    /\ n_new_frame' = n_new_frame + 1
    /\ IF WaitOverflows(frame_sema.counter, frame_count) /\ overflow_checks
       THEN /\ pc' = "panic"
            /\ UNCHANGED <<wait_val, blocked>>
       ELSE /\ wait_val' = WaitValue(frame_sema.counter, frame_count)
            /\ blocked' = (timeline < wait_val')
            /\ pc' = "new_frame"
    /\ driver' = NoCall
    /\ returned' = NoReturn
    /\ UNCHANGED <<pool_vars, setup_vars, overflow_checks, alloc_last,
                   frame_count, frame_sema, queues, timeline,
                   in_flight, image_count, sema_index, image_index, history,
                   n_end_frame>>

\* new_frame without the wait: it returns whatever the timeline shows.
NewFrameReturnNoWait ==
    /\ pc = "new_frame"
    /\ sema_index' = SlotIndex(frame_sema.counter, frame_count)
    /\ pc' = "acquire"
    /\ UNCHANGED <<pool_vars, setup_vars, overflow_checks, driver, returned, alloc_last,
                   frame_count, frame_sema, queues, timeline,
                   in_flight, image_count, wait_val, blocked, image_index,
                   history, n_new_frame, n_end_frame>>

\* wait_for_semaphore returns once the timeline has reached wait_val, and
\* new_frame returns the slot.
NewFrameReturn ==
    /\ pc = "new_frame"
    /\ timeline >= wait_val
    /\ sema_index' = SlotIndex(frame_sema.counter, frame_count)
    /\ pc' = "acquire"
    /\ UNCHANGED <<pool_vars, setup_vars, overflow_checks, driver, returned, alloc_last,
                   frame_count, frame_sema, queues, timeline,
                   in_flight, image_count, wait_val, blocked, image_index,
                   history, n_new_frame, n_end_frame>>

\* swapchain.frame_semas(sema_index) and acquire_next_image: the driver picks
\* the image.
AcquireNextImage ==
    /\ pc = "acquire"
    /\ \E i \in 0 .. image_count - 1, result \in DriverResults :
         /\ driver' = [call |-> "acquire", result |-> result]
         /\ returned' = acquire_next_image(result, i)
         /\ IF returned'.kind = "Ok"
            THEN image_index' = returned'.image_id /\ pc' = "record"
            ELSE UNCHANGED image_index /\ pc' = "panic"
    /\ UNCHANGED <<pool_vars, setup_vars, overflow_checks, alloc_last,
                   frame_count, frame_sema, queues, timeline,
                   in_flight, image_count, wait_val, blocked, sema_index,
                   history, n_new_frame, n_end_frame>>

\* command_allocators[image_index] (a Vec of frame_count entries), then
\* reset_command_allocator and the recording of the command list.
Record ==
    /\ pc = "record"
    /\ pc' = IF image_index >= frame_count THEN "panic" ELSE "submit"
    /\ UNCHANGED <<pool_vars, setup_vars, overflow_checks, driver, returned, alloc_last,
                   frame_count, frame_sema, queues, timeline,
                   in_flight, image_count, wait_val, blocked, sema_index,
                   image_index, history, n_new_frame, n_end_frame>>

\* A signal of the value the counter holds already.
SignalValueStale(sema) == sema.counter

\* signal_sema_infos: .semaphore(frame_sema).value(frame_sema.counter + 1)
SignalValue(sema) == sema.counter + 1

\* Device::submit of the batch that signals frame_sema to counter + 1.
Submit ==
    /\ pc = "submit"
    /\ in_flight' = Append(in_flight, SignalValue(frame_sema))
    /\ history' = Append(history, [slot |-> sema_index,
                                   signal |-> SignalValue(frame_sema)])
    /\ alloc_last' = [alloc_last EXCEPT ![image_index] = SignalValue(frame_sema)]
    /\ pc' = "end_frame"
    /\ UNCHANGED <<pool_vars, setup_vars, overflow_checks, driver, returned,
                   frame_count, frame_sema, queues, timeline,
                   image_count, wait_val, blocked, sema_index, image_index,
                   n_new_frame, n_end_frame>>

\* Device::end_frame: self.frame_sema.advance().
EndFrame ==
    /\ pc = "end_frame"
    /\ n_end_frame' = n_end_frame + 1
    /\ IF advance_overflows(frame_sema)
       THEN IF overflow_checks
            THEN pc' = "panic" /\ UNCHANGED frame_sema
            ELSE pc' = "present" /\ frame_sema' = [frame_sema EXCEPT !.counter = 0]
       ELSE pc' = "present" /\ frame_sema' = advance(frame_sema)
    /\ UNCHANGED <<pool_vars, setup_vars, overflow_checks, driver, returned, alloc_last,
                   frame_count, queues, timeline, in_flight,
                   image_count, wait_val, blocked, sema_index, image_index,
                   history, n_new_frame>>

\* Device::present, and the unwrap of its result.
Present ==
    /\ pc = "present"
    /\ \E result \in DriverResults :
         /\ driver' = [call |-> "present", result |-> result]
         /\ returned' = present(result)
         /\ pc' = IF returned'.kind = "Ok" THEN "idle" ELSE "panic"
    /\ UNCHANGED <<pool_vars, setup_vars, overflow_checks, alloc_last,
                   frame_count, frame_sema, queues, timeline,
                   in_flight, image_count, wait_val, blocked, sema_index,
                   image_index, history, n_new_frame, n_end_frame>>

\* The GPU completes the oldest batch in flight and signals its value.
GpuSignal ==
    /\ in_flight # << >>
    /\ timeline' = Head(in_flight)
    /\ in_flight' = Tail(in_flight)
    /\ UNCHANGED <<pool_vars, setup_vars, overflow_checks, driver, returned, alloc_last,
                   frame_count, frame_sema, queues,
                   image_count, pc, wait_val, blocked, sema_index, image_index,
                   history, n_new_frame, n_end_frame>>

Next ==
    \/ NewFrameCall
    \/ NewFrameReturn
    \/ AcquireNextImage
    \/ Record
    \/ Submit
    \/ EndFrame
    \/ Present
    \/ GpuSignal

Spec == Init /\ [][Next]_vars

\* The steps of the CPU thread in Application::draw.
DrawStep ==
    \/ NewFrameCall
    \/ NewFrameReturn
    \/ AcquireNextImage
    \/ Record
    \/ Submit
    \/ EndFrame
    \/ Present

\* The frame loop with a CPU thread that keeps running (wait_semaphores with
\* timeout u64::MAX returns once the value is reached) and a GPU that
\* completes every batch submitted to it.
LiveSpec == Init /\ [][Next]_vars /\ WF_vars(DrawStep) /\ WF_vars(GpuSignal)

\* The device in the middle of its life: any counter value a u64 holds, the
\* last frame_count batches at most still in flight.
InitAnyCounter ==
    /\ InitDevice
    /\ \E c \in U64 :
         /\ frame_sema = [counter |-> c]
         /\ \E t \in Max(0, c - frame_count) .. c :
              /\ timeline = t
              /\ in_flight = [i \in 1 .. (c - t) |-> t + i]
    /\ InitPool

WaitSpec == InitAnyCounter /\ [][Next]_vars

PoolSpec == PoolInit /\ [][PoolNext]_vars

DeviceSpec == DeviceInit /\ [][DeviceNext]_vars

\* ----------------------------------------------------------------- claims
\* new_frame has returned and the frame it opened is not yet submitted.
Returned == pc \in {"acquire", "record", "submit"}

\* C1: the number of frames submitted and not completed by the GPU,
\* frame_sema.counter minus the timeline value, never exceeds frame_count,
\* and is at most frame_count - 1 when new_frame returns.
C1_FramesInFlightBound ==
    /\ frame_sema.counter - timeline <= frame_count
    /\ pc = "acquire" => frame_sema.counter - timeline <= frame_count - 1

\* new_frame had to block and returned with frame_count - 1 frames in flight.
C1_Witness ==
    /\ pc = "acquire"
    /\ blocked
    /\ frame_count >= 2
    /\ frame_sema.counter - timeline = frame_count - 1

\* C2: when new_frame returns slot s, the GPU has reached the signal value
\* of every earlier frame that was given slot s; the k-th call (k >=
\* frame_count) returns only once the timeline is at least k - frame_count.
C2_SlotReuseSafe ==
    Returned =>
        /\ \A i \in 1 .. Len(history) :
             history[i].slot = sema_index => timeline >= history[i].signal
        /\ n_new_frame >= frame_count => timeline >= n_new_frame - frame_count

\* A slot is handed out a second time, after a wait that blocked.
C2_Witness ==
    /\ pc = "acquire"
    /\ blocked
    /\ frame_count >= 2
    /\ \E i \in 1 .. Len(history) : history[i].slot = sema_index

\* C3: for every counter value c of the u64 and every frame_count >= 1,
\* new_frame waits for exactly max(0, c - (frame_count - 1)) and returns only
\* once the timeline has reached that value.
C3_WaitTargetExact ==
    /\ pc = "new_frame" =>
         wait_val = Max(0, frame_sema.counter - (frame_count - 1))
    /\ Returned =>
         timeline >= Max(0, frame_sema.counter - (frame_count - 1))

\* C4: new_frame returns counter mod frame_count, a value of
\* 0 .. frame_count - 1, and any frame_count consecutive frames get pairwise
\* distinct slots.
C4_SlotIndex ==
    /\ Returned =>
         /\ sema_index = frame_sema.counter % frame_count
         /\ sema_index \in 0 .. frame_count - 1
    /\ \A i, j \in 1 .. Len(history) :
         (i < j /\ j - i < frame_count) => history[i].slot # history[j].slot

\* frame_count consecutive frames have been submitted, each with its slot.
C4_Witness ==
    /\ frame_count = 3
    /\ Len(history) >= 4
    /\ pc = "acquire"
    /\ sema_index = 1

\* C5: while the GPU has signalled nothing, the calls of new_frame made with
\* fewer than frame_count frames ended return without blocking, the call made
\* after frame_count end_frame calls blocks, and it does not return as long as
\* the timeline stays at 0.
C5_GpuStall ==
    /\ [](timeline = 0 =>
            /\ frame_sema.counter <= frame_count
            /\ pc = "new_frame" /\ frame_sema.counter < frame_count =>
                 ~blocked /\ timeline >= wait_val
            /\ pc = "new_frame" /\ frame_sema.counter = frame_count =>
                 blocked /\ timeline < wait_val)
    /\ [][(pc = "new_frame" /\ frame_sema.counter = frame_count
             /\ timeline' = 0) => pc' = "new_frame"]_vars

\* The frame_count-th call is blocked on a GPU that never signalled.
C5_Witness ==
    /\ timeline = 0
    /\ frame_count = 3
    /\ n_end_frame = 3
    /\ pc = "new_frame"
    /\ blocked

\* C6: a call of new_frame made when the timeline has reached
\* frame_sema.counter does not block, and new_frame returns counter mod
\* frame_count; with frame_count = 3 and 5 frames ended and signalled it
\* returns slot 2.
C6_NoSpuriousBlocking ==
    /\ [][(pc = "idle" /\ pc' = "new_frame"
             /\ timeline >= frame_sema.counter) =>
                (~blocked' /\ timeline' >= wait_val')]_vars
    /\ [][(pc = "new_frame" /\ pc' = "acquire") =>
                sema_index' = frame_sema.counter % frame_count]_vars
    /\ []((Returned /\ frame_count = 3 /\ n_end_frame = 5) => sema_index = 2)

\* frame_count = 3, five frames ended and all five signalled: the sixth
\* new_frame came back with slot 2 without blocking.
C6_Witness ==
    /\ pc = "acquire"
    /\ frame_count = 3
    /\ n_end_frame = 5
    /\ timeline = 5
    /\ ~blocked
    /\ sema_index = 2

\* C7: end_frame adds exactly one to the global counter and leaves
\* frame_count and the per-queue counters as they are, new_frame changes no
\* counter, the global counter never decreases and equals the number of
\* end_frame calls.
C7_EndFrameEffect ==
    /\ [](frame_sema.counter = n_end_frame)
    /\ [][frame_sema.counter' >= frame_sema.counter]_vars
    /\ [][(pc = "end_frame" /\ pc' # pc) =>
            /\ frame_sema'.counter = frame_sema.counter + 1
            /\ UNCHANGED <<frame_count, queues, timeline, in_flight>>]_vars
    /\ [][(pc \in {"idle", "new_frame"} /\ pc' # pc) =>
            UNCHANGED <<frame_sema, queues>>]_vars

\* Three frames have been ended.
C7_Witness ==
    /\ pc = "present"
    /\ n_end_frame = 3
    /\ frame_sema.counter = 3

\* A step that is a call of create.
CreateStep ==
    /\ last'.op = "create"
    /\ <<pool, pool_pc, last>>' # <<pool, pool_pc, last>>

\* The slot of a handle: its page and its offset in the page.
SlotOf(h) == <<ShiftRight(h, PAGE_BITS), AndPageMask(h)>>

\* The slots that hold a record.
Occupied ==
    {sl \in (0 .. PAGE_COUNT - 1) \X (0 .. PAGE_SIZE - 1) :
        pool.pages[sl[1]].present /\ pool.pages[sl[1]].slots[sl[2]]}

\* C8: as long as no create has run over the capacity, every handle a
\* successful create returns differs from every handle live at that moment,
\* and the live handles occupy one slot each.
C8_HandleUnique ==
    /\ [][(CreateStep /\ last'.ret.kind = "Some" /\ ~ever_exhausted') =>
             last'.ret.id \notin live]_vars
    /\ [](~ever_exhausted =>
             /\ Occupied = {SlotOf(h) : h \in live}
             /\ Cardinality(Occupied) = Cardinality(live))

\* A freed handle has been handed out again while another one is live.
C8_Witness ==
    /\ last = [op |-> "create", ret |-> Some(1)]
    /\ pool.latest_index = 2
    /\ live = {1, 2}
    /\ ~ever_exhausted

\* C9: once a create with an empty free list has failed at the capacity,
\* every later create with an empty free list fails too, however many calls
\* follow, and a failing create writes no slot and materializes no page.
C9_ExhaustionNeverWraps ==
    [][CreateStep =>
         /\ (pool.free_indices = << >> /\ ever_exhausted) =>
               last'.ret.kind # "Some"
         /\ last'.ret.kind = "None" => pool'.pages = pool.pages]_vars

\* C10: create fails if and only if the free list is empty and the new
\* high-water mark latest_index + 1 exceeds MAX_RESOURCE_COUNT or its page
\* index is not one of the PAGE_COUNT pages; otherwise it succeeds, and every
\* index handed out has a page index below PAGE_COUNT and an offset below
\* PAGE_SIZE.
C10_CapacityBoundary ==
    [][CreateStep =>
         /\ last'.ret.kind # "Some" <=>
               /\ pool.free_indices = << >>
               /\ \/ pool.latest_index + 1 > MAX_RESOURCE_COUNT
                  \/ ShiftRight(pool.latest_index + 1, PAGE_BITS) >= PAGE_COUNT
         /\ last'.ret.kind = "Some" =>
               /\ ShiftRight(last'.ret.id, PAGE_BITS) < PAGE_COUNT
               /\ AndPageMask(last'.ret.id) < PAGE_SIZE]_vars

\* C11: no successful create returns the handle 0, whatever allocations and
\* frees of returned handles came before, and the first handle of a fresh
\* pool is 1.
C11_NullHandleReserved ==
    /\ []((last.op = "create" /\ last.ret.kind = "Some") => last.ret.id # 0)
    /\ [](0 \notin live)
    /\ [][(pool = new /\ CreateStep) => last'.ret = Some(1)]_vars

\* PhysicalDevice::new has returned its selection.
Selected == dev_pc \in {"create_device", "queues", "descriptors", "done"}

\* The flags of the driver's family i.
Family(i) == families[i + 1]

\* The families that expose `flag` and not GRAPHICS.
NonGraphics(flag) ==
    {i \in 0 .. Len(families) - 1 :
        flag \in Family(i) /\ "GRAPHICS" \notin Family(i)}

\* C12: for every queue family table, Graphics gets the first family with
\* GRAPHICS; Compute gets a family with COMPUTE and without GRAPHICS, one
\* without TRANSFER whenever such a family exists; Transfer gets a family
\* with TRANSFER and without GRAPHICS, one without COMPUTE whenever such a
\* family exists; the selection fails only when one of the three has no
\* candidate; the scenario table gives Graphics 0, Compute 1, Transfer 2.
C12_QueueFamilySelection ==
    LET g == queue_type_indices[AsUsize("Graphics")]
        c == queue_type_indices[AsUsize("Compute")]
        t == queue_type_indices[AsUsize("Transfer")]
    IN  /\ Selected =>
            /\ g \in 0 .. Len(families) - 1
            /\ "GRAPHICS" \in Family(g)
            /\ \A j \in 0 .. g - 1 : "GRAPHICS" \notin Family(j)
            /\ c \in NonGraphics("COMPUTE")
            /\ (\E j \in NonGraphics("COMPUTE") : "TRANSFER" \notin Family(j))
                   => "TRANSFER" \notin Family(c)
            /\ t \in NonGraphics("TRANSFER")
            /\ (\E j \in NonGraphics("TRANSFER") : "COMPUTE" \notin Family(j))
                   => "COMPUTE" \notin Family(t)
        /\ dev_pc = "panic" =>
            \/ \A j \in 0 .. Len(families) - 1 : "GRAPHICS" \notin Family(j)
            \/ NonGraphics("COMPUTE") = {}
            \/ NonGraphics("TRANSFER") = {}
        /\ (Selected /\ families = ScenarioFamilies) =>
            (g = 0 /\ c = 1 /\ t = 2)

C12_Witness ==
    /\ Selected
    /\ families = ScenarioFamilies
    /\ queue_type_indices[AsUsize("Compute")] = 1
    /\ queue_type_indices[AsUsize("Transfer")] = 2

\* C13: when the driver reports SUBOPTIMAL_KHR, acquire_next_image and
\* present each hand back an Ok value that carries the suboptimal fact;
\* neither panics, returns an error, or drops it.
C13_SuboptimalSurfaced ==
    (driver.call \in {"acquire", "present"} /\ driver.result = "SUBOPTIMAL_KHR")
        => /\ returned.kind = "Ok"
           /\ "suboptimal" \in DOMAIN returned
           /\ returned.suboptimal = TRUE

\* C14: the layout built by Device::new has the five bindings 0..4 in the
\* order Sampler, SampledImage, StorageImage, StorageBuffer, DeviceAddress;
\* the descriptor count of each binding is 1024, that of binding 4 is 1; the
\* pool sizes carry the same types and counts.
C14_BindlessCapacities ==
    dev_pc = "done" =>
        /\ Len(descriptor_bindings) = 5
        /\ Len(descriptor_pool_sizes) = 5
        /\ \A b \in 1 .. 5 :
              /\ descriptor_bindings[b].binding = b - 1
              /\ descriptor_bindings[b].descriptor_type =
                    <<"SAMPLER", "SAMPLED_IMAGE", "STORAGE_IMAGE",
                      "STORAGE_BUFFER", "STORAGE_BUFFER">>[b]
              /\ descriptor_bindings[b].descriptor_count =
                    (IF b = 5 THEN 1 ELSE 1024)
              /\ descriptor_pool_sizes[b].ty =
                    descriptor_bindings[b].descriptor_type
              /\ descriptor_pool_sizes[b].descriptor_count =
                    descriptor_bindings[b].descriptor_count

\* C15: every draw submits one batch that signals the frame timeline to
\* frame_sema.counter + 1 and then calls end_frame once; so the submitted
\* signal values are 1, 2, 3, ... with none skipped or repeated, and outside
\* the gap between submit and end_frame the counter equals the number of
\* submissions, which is the largest submitted signal value.
C15_SignalDiscipline ==
    /\ [](\A i \in 1 .. Len(history) : history[i].signal = i)
    /\ [](IF pc = "end_frame"
          THEN Len(history) = frame_sema.counter + 1
               /\ n_end_frame = frame_sema.counter
          ELSE Len(history) = frame_sema.counter
               /\ n_end_frame = Len(history))
    /\ [][Len(history') # Len(history) =>
            /\ pc = "submit" /\ pc' = "end_frame"
            /\ history' = Append(history, [slot |-> sema_index,
                                           signal |-> frame_sema.counter + 1])
            /\ in_flight' = Append(in_flight, frame_sema.counter + 1)]_vars
    /\ [][n_end_frame' # n_end_frame =>
            /\ pc = "end_frame" /\ pc' = "present"
            /\ n_end_frame' = n_end_frame + 1
            /\ frame_sema'.counter = history[Len(history)].signal]_vars

C15_Witness ==
    /\ pc = "idle"
    /\ Len(history) = 3
    /\ frame_sema.counter = 3
    /\ n_end_frame = 3

\* C16: whatever image index acquire_next_image returns, the command
\* allocator that draw resets and records from has no submission still in
\* flight: the last batch submitted from it has been completed by the GPU.
C16_AllocatorResetSafe ==
    [][(pc = "record" /\ pc' = "submit") =>
          alloc_last[image_index] <= timeline]_vars

\* C17: once Device::new has set up its queues, queue_at(k) of every kind k
\* has the family index selected for k and the native queue retrieved from
\* that same family.
C17_QueueIdentity ==
    dev_pc \in {"descriptors", "done"} =>
        \A k \in CommandType :
            /\ queue_at(k).family_index = queue_type_indices[AsUsize(k)]
            /\ queue_at(k).handle =
                  get_device_queue(queue_type_indices[AsUsize(k)], 0)

\* A step that is a call of free.
FreeStep ==
    /\ last'.op = "free"
    /\ <<pool, last>>' # <<pool, last>>

\* C18: with a non-empty free list, create returns the index pushed last,
\* removes that one entry and leaves latest_index as it is; latest_index
\* changes only in a create that finds the free list empty.
C18_FreeListLIFO ==
    /\ [][FreeStep =>
            pool'.free_indices = Append(pool.free_indices, last'.ret.id)]_vars
    /\ [][(CreateStep /\ pool.free_indices # << >>) =>
            /\ last'.ret = Some(pool.free_indices[Len(pool.free_indices)])
            /\ pool'.free_indices =
                  SubSeq(pool.free_indices, 1, Len(pool.free_indices) - 1)
            /\ pool'.latest_index = pool.latest_index]_vars
    /\ [][pool'.latest_index # pool.latest_index =>
            (CreateStep /\ pool.free_indices = << >>)]_vars

\* 1 and then 2 were freed; create has handed out 2 and left 1 on the list.
C18_Witness ==
    /\ last = [op |-> "create", ret |-> Some(2)]
    /\ pool.free_indices = <<1>>
    /\ pool.latest_index = 2

\* The pages that are materialized.
Materialized == {p \in 0 .. PAGE_COUNT - 1 : pool.pages[p].present}

\* C19: no page is materialized at first, and a page becomes materialized
\* exactly in a successful create of an index in its range, so page p is
\* materialized iff some create has succeeded with an index in
\* [PAGE_SIZE * p, PAGE_SIZE * p + PAGE_SIZE - 1]; no step drops a page, a
\* create keeps every other record of the page it writes, and after a
\* successful create of index i the record sits in page i \div PAGE_SIZE at
\* offset i % PAGE_SIZE.
C19_LazyPages ==
    /\ Materialized = {}
    /\ [][\A p \in 0 .. PAGE_COUNT - 1 :
            (p \in Materialized') <=>
                \/ p \in Materialized
                \/ /\ CreateStep
                   /\ last'.ret.kind = "Some"
                   /\ last'.ret.id \div PAGE_SIZE = p]_vars
    /\ [][(CreateStep /\ last'.ret.kind = "Some") =>
            LET i == last'.ret.id
            IN  /\ (i \div PAGE_SIZE) \in Materialized'
                /\ pool'.pages[i \div PAGE_SIZE].slots[i % PAGE_SIZE]
                /\ \A p \in 0 .. PAGE_COUNT - 1, o \in 0 .. PAGE_SIZE - 1 :
                      (p # i \div PAGE_SIZE \/ o # i % PAGE_SIZE) =>
                          pool'.pages[p].slots[o] = pool.pages[p].slots[o]]_vars

\* Page 1 holds the records of 2 and 3, page 0 that of 1.
C19_Witness ==
    /\ last = [op |-> "create", ret |-> Some(3)]
    /\ Materialized = {0, 1}
    /\ pool.pages[1].slots[0]
    /\ pool.pages[1].slots[1]
    /\ live = {1, 2, 3}

\* C20: a create that returns None leaves latest_index, the free list and
\* the pages with their records as they were before the call.
C20_FailureLeavesPoolUnchanged ==
    [][(CreateStep /\ last'.ret.kind = "None") => pool' = pool]_vars

\* C21: the value new_frame waits for never exceeds frame_sema.counter, and
\* is 0 or a value that a submitted batch signals; with a GPU that completes
\* every submitted batch, every call of new_frame returns, and every draw
\* that was started runs to its end unless a panic stops the program.
C21_NoSelfDeadlock ==
    /\ [](pc = "new_frame" =>
            /\ wait_val <= frame_sema.counter
            /\ (wait_val = 0 \/
                  \E i \in 1 .. Len(history) : history[i].signal = wait_val))
    /\ (pc = "new_frame" ~> pc = "acquire")
    /\ (pc = "new_frame" ~> (pc = "idle" \/ pc = "panic"))

\* new_frame has waited for the newest submitted value, the most it can wait
\* for, and has returned.
C21_Witness ==
    /\ pc = "acquire"
    /\ blocked
    /\ frame_count = 1
    /\ n_new_frame = 4
    /\ wait_val = frame_sema.counter
    /\ wait_val = 3

\* C22: whenever the selection of PhysicalDevice::new succeeds, the family
\* indices of Graphics, Compute and Transfer are pairwise distinct, and no
\* two of create_device's queue create infos name the same family.
C22_DistinctQueueFamilies ==
    /\ Selected =>
          \A k1, k2 \in CommandType :
              k1 # k2 =>
                  queue_type_indices[AsUsize(k1)] #
                      queue_type_indices[AsUsize(k2)]
    /\ \A i, j \in 1 .. Len(queue_create_infos) :
          i # j =>
              queue_create_infos[i].queue_family_index #
                  queue_create_infos[j].queue_family_index

====
